---- MODULE Spec2Model ----
(***************************************************************************)
(* A model of the KCL front-end parser (compiler crate) and of the CLI     *)
(* that drives it.  Source text is a sequence of characters (one-character *)
(* strings); every grammar production of parser/implementations.rs is an   *)
(* operator from (source, position) to a nom IResult, computed the way the *)
(* nom combinators compute it, VerboseError entries included.              *)
(***************************************************************************)
EXTENDS Integers, Sequences, FiniteSets, TLC

VARIABLES
    pc,           \* "test" | "main" | "read" | "done" | "exited"
    tc,           \* the test vector / the user's text: [shape, n, site, parts]
    source_code,  \* the text handed to the parser
    prod,         \* the production applied (T in T::parse)
    result,       \* the IResult returned by the production
    is_terminal,  \* stdin().is_terminal()
    file,         \* Args.file: [given, exists, text]
    report,       \* what main printed
    exit_code     \* the process status, -1 while running

vars == <<pc, tc, source_code, prod, result, is_terminal, file, report, exit_code>>

(***************************************************************************)
(* Characters.  A character is a one-character string; the two CJK letters *)
(* of the assignment test are written by their code points.                *)
(***************************************************************************)
LowerCase == {"a","b","c","d","e","f","g","h","i","j","k","l","m",
              "n","o","p","q","r","s","t","u","v","w","x","y","z"}
UpperCase == {"A","B","C","D","E","F","G","H","I","J","K","L","M",
              "N","O","P","Q","R","S","T","U","V","W","X","Y","Z"}
CJK == {"U+4E9E", "U+7576"}
DigitChars == <<"0","1","2","3","4","5","6","7","8","9">>
AsciiDigit == {DigitChars[k] : k \in 1..10}

\* char::is_alphabetic / char::is_alphanumeric, as nom_unicode uses them
IsAlpha(c) == c \in LowerCase \cup UpperCase \cup CJK
IsAlphanumeric(c) == IsAlpha(c) \/ c \in AsciiDigit
\* nom's multispace: space, tab, carriage return, line feed
IsMultispace(c) == c \in {" ", "\t", "\r", "\n"}
RECURSIVE Concat(_)
Concat(parts) ==
    IF parts = <<>> THEN <<>> ELSE Head(parts) \o Concat(Tail(parts))

(***************************************************************************)
(* Positioned input (nom_locate's LocatedSpan): the rest of the source     *)
(* from character index idx, with its byte offset and its line.            *)
(***************************************************************************)
InputNew == [idx |-> 0, offset |-> 0, line |-> 1]

InputLen(src, p) == Len(src) - p.idx
Fragment(src, p) == SubSeq(src, p.idx + 1, Len(src))

\* str::len: the length in bytes
ByteLen(s) == Len(s) + 2 * Cardinality({k \in 1..Len(s) : s[k] \in CJK})

CountNewlines(s) == Cardinality({k \in 1..Len(s) : s[k] = "\n"})

\* a slice whose offset counts characters instead of bytes
SliceCountingChars(src, p, n) ==
    [idx |-> p.idx + n,
     offset |-> p.offset + n,
     line |-> p.line + CountNewlines(SubSeq(src, p.idx + 1, p.idx + n))]

\* LocatedSpan::slice(n..): the offset grows by the bytes consumed, the line
\* by the newlines consumed
Slice(src, p, n) ==
    LET consumed == SubSeq(src, p.idx + 1, p.idx + n)
    IN  [idx |-> p.idx + n,
         offset |-> p.offset + ByteLen(consumed),
         line |-> p.line + CountNewlines(consumed)]

\* the character index of a byte offset of the source
CharIndex(src, offset) ==
    CHOOSE k \in 0..Len(src) : ByteLen(SubSeq(src, 1, k)) = offset

\* LocatedSpan::get_utf8_column: the characters between the last newline
\* before the span's offset and the offset, plus one
GetUtf8Column(src, offset) ==
    LET idx == CharIndex(src, offset)
        before == {k \in 1..idx : src[k] = "\n"}
        last == IF before = {} THEN 0
                ELSE CHOOSE k \in before : \A j \in before : j <= k
    IN  idx - last + 1

(***************************************************************************)
(* nom results.  Err::Error carries VerboseError.errors, a list of         *)
(* (input, VerboseErrorKind); Err::Failure is the same with fatal set.     *)
(***************************************************************************)
None == <<>>
Ok(p, v) == [ok |-> TRUE, pos |-> p, val |-> v, fatal |-> FALSE, errors |-> <<>>]
Error(errs) ==
    [ok |-> FALSE, pos |-> InputNew, val |-> None, fatal |-> FALSE, errors |-> errs]

NomKind(p, kind) == [pos |-> p, kind |-> "Nom", what |-> kind]
CharKind(p, c) == [pos |-> p, kind |-> "Char", what |-> c]
ContextKind(p, ctx) == [pos |-> p, kind |-> "Context", what |-> ctx]

\* VerboseError::from_error_kind / from_char
FromErrorKind(p, kind) == Error(<<NomKind(p, kind)>>)
FromChar(p, c) == Error(<<CharKind(p, c)>>)
\* VerboseError's FromExternalError: the external error e is not kept
FromExternalError(p, kind, e) == FromErrorKind(p, kind)
\* VerboseError::append
AppendKind(p, kind, r) == [r EXCEPT !.errors = Append(@, NomKind(p, kind))]

\* nom::error::context(ctx, f)(i), applied to r = f(i): a failure gets
\* (i, Context(ctx)) pushed at the end of its list
ContextAtError(p, ctx, r) ==
    [r EXCEPT !.errors = IF r.ok THEN @
                         ELSE Append(@, ContextKind(r.errors[1].pos, ctx))]
Context(p, ctx, r) ==
    [r EXCEPT !.errors = IF r.ok THEN @ ELSE Append(@, ContextKind(p, ctx))]
\* context(ctx, F)(i)
ContextOf(ctx, F(_, _), src, p) == Context(p, ctx, F(src, p))

(***************************************************************************)
(* Leaf parsers.                                                           *)
(***************************************************************************)
\* how many leading characters of the input satisfy Class
LeadingRun(src, p, Class(_)) ==
    CHOOSE n \in 0..InputLen(src, p) :
        /\ \A k \in 1..n : Class(src[p.idx + k])
        /\ (n = InputLen(src, p) \/ ~Class(src[p.idx + n + 1]))

\* the first n characters are consumed and returned
Take(src, p, n) == Ok(Slice(src, p, n), SubSeq(src, p.idx + 1, p.idx + n))

\* bytes::complete::tag
Tag(src, p, t) ==
    IF Len(t) <= InputLen(src, p) /\ SubSeq(src, p.idx + 1, p.idx + Len(t)) = t
    THEN Ok(Slice(src, p, Len(t)), t)
    ELSE FromErrorKind(p, "Tag")

\* character::complete::char
OneChar(src, p, c) ==
    IF InputLen(src, p) > 0 /\ src[p.idx + 1] = c
    THEN Ok(Slice(src, p, 1), c)
    ELSE FromChar(p, c)

\* character::complete::newline is char('\n')
Newline(src, p) == OneChar(src, p, "\n")

\* character::complete::one_of
OneOf(src, p, list) ==
    IF InputLen(src, p) > 0 /\ src[p.idx + 1] \in list
    THEN Ok(Slice(src, p, 1), src[p.idx + 1])
    ELSE FromErrorKind(p, "OneOf")

\* character::complete::multispace0 never fails
Multispace0(src, p) == Take(src, p, LeadingRun(src, p, IsMultispace))

\* nom_unicode::complete::alpha1
Take1(src, p, n, kind) ==
    IF n = 0 THEN FromErrorKind(p, kind) ELSE Take(src, p, n)
Alpha1(src, p) == Take1(src, p, LeadingRun(src, p, IsAlpha), "Alpha")

\* nom_unicode::complete::alphanumeric0 never fails; the variant takes
\* underscores as well
IsAlphanumericOrUnderscore(c) == IsAlphanumeric(c) \/ c = "_"
Alphanumeric0WithUnderscore(src, p) ==
    Take(src, p, LeadingRun(src, p, IsAlphanumericOrUnderscore))
Alphanumeric0(src, p) == Take(src, p, LeadingRun(src, p, IsAlphanumeric))

(***************************************************************************)
(* Generic combinators, as nom 7 implements them.                          *)
(***************************************************************************)
\* combinator::all_consuming, applied to r = f(i)
AllConsumingIgnoringRest(src, r) == r
AllConsuming(src, r) ==
    IF r.ok /\ InputLen(src, r.pos) # 0 THEN FromErrorKind(r.pos, "Eof") ELSE r

\* map(tuple((f1, .., fn)), G) (and pair, preceded, terminated, delimited,
\* which are tuples that drop some of the outputs): the members run one after
\* the other, each on what the one before left; the first failure is the
\* result, and G is applied to the tuple of the outputs
Tuple2Of(G(_), r1, r2) ==
    IF /\ r1.ok
       /\ r2.ok
    THEN Ok(r2.pos, G(<<r1.val, r2.val>>))
    ELSE IF ~r1.ok THEN r1
    ELSE r2
Tuple2(F1(_, _), F2(_, _), G(_), src, p) ==
    LET r1 == F1(src, p)
        r2 == F2(src, r1.pos)
    IN  Tuple2Of(G, r1, r2)

Tuple3Of(G(_), r1, r2, r3) ==
    IF /\ r1.ok
       /\ r2.ok
       /\ r3.ok
    THEN Ok(r3.pos, G(<<r1.val, r2.val, r3.val>>))
    ELSE IF ~r1.ok THEN r1
    ELSE IF ~r2.ok THEN r2
    ELSE r3
Tuple3(F1(_, _), F2(_, _), F3(_, _), G(_), src, p) ==
    LET r1 == F1(src, p)
        r2 == F2(src, r1.pos)
        r3 == F3(src, r2.pos)
    IN  Tuple3Of(G, r1, r2, r3)

Tuple4Of(G(_), r1, r2, r3, r4) ==
    IF /\ r1.ok
       /\ r2.ok
       /\ r3.ok
       /\ r4.ok
    THEN Ok(r4.pos, G(<<r1.val, r2.val, r3.val, r4.val>>))
    ELSE IF ~r1.ok THEN r1
    ELSE IF ~r2.ok THEN r2
    ELSE IF ~r3.ok THEN r3
    ELSE r4
Tuple4(F1(_, _), F2(_, _), F3(_, _), F4(_, _), G(_), src, p) ==
    LET r1 == F1(src, p)
        r2 == F2(src, r1.pos)
        r3 == F3(src, r2.pos)
        r4 == F4(src, r3.pos)
    IN  Tuple4Of(G, r1, r2, r3, r4)

Tuple5Of(G(_), r1, r2, r3, r4, r5) ==
    IF /\ r1.ok
       /\ r2.ok
       /\ r3.ok
       /\ r4.ok
       /\ r5.ok
    THEN Ok(r5.pos, G(<<r1.val, r2.val, r3.val, r4.val, r5.val>>))
    ELSE IF ~r1.ok THEN r1
    ELSE IF ~r2.ok THEN r2
    ELSE IF ~r3.ok THEN r3
    ELSE IF ~r4.ok THEN r4
    ELSE r5
Tuple5(F1(_, _), F2(_, _), F3(_, _), F4(_, _), F5(_, _), G(_), src, p) ==
    LET r1 == F1(src, p)
        r2 == F2(src, r1.pos)
        r3 == F3(src, r2.pos)
        r4 == F4(src, r3.pos)
        r5 == F5(src, r4.pos)
    IN  Tuple5Of(G, r1, r2, r3, r4, r5)
All(v) == v
First(v) == v[1]
Second(v) == v[2]

\* combinator::map, applied to r = f(i)
Map(r, G(_)) == [r EXCEPT !.val = IF r.ok THEN G(@) ELSE @]

\* combinator::map_res, applied to r = f(i): o is the closure's Result
MapResOf(p, pos, o) ==
    IF o.ok THEN Ok(pos, o.val) ELSE FromExternalError(p, "MapRes", o.err)
MapRes(p, r, G(_)) == IF r.ok THEN MapResOf(p, r.pos, G(r.val)) ELSE r

\* combinator::recognize, applied to r = f(i): the span that f consumed
Recognize(src, p, r) ==
    IF r.ok
    THEN Ok(r.pos, [fragment |-> SubSeq(src, p.idx + 1, r.pos.idx),
                    offset |-> p.offset, line |-> p.line])
    ELSE r

\* an element's output put in front of the outputs of the elements after it
Cons(v, rest) == IF rest.ok THEN Ok(rest.pos, <<v>> \o rest.val) ELSE rest

\* multi::many0: stops at the first Err::Error of f, with what it has
RECURSIVE Many0(_, _, _)
Many0(F(_, _), src, i) ==
    LET Step(r) ==
            IF ~r.ok THEN (IF r.fatal THEN r ELSE Ok(i, <<>>))
            ELSE IF InputLen(src, r.pos) = InputLen(src, i)
                 THEN FromErrorKind(i, "Many0")
            ELSE Cons(r.val, Many0(F, src, r.pos))
    IN  Step(F(src, i))

\* multi::many1: the first f must succeed
RECURSIVE Many1Loop(_, _, _)
Many1Loop(F(_, _), src, i) ==
    LET Step(r) ==
            IF ~r.ok THEN (IF r.fatal THEN r ELSE Ok(i, <<>>))
            ELSE IF InputLen(src, r.pos) = InputLen(src, i)
                 THEN FromErrorKind(i, "Many1")
            ELSE Cons(r.val, Many1Loop(F, src, r.pos))
    IN  Step(F(src, i))

Many1(F(_, _), src, i) ==
    LET Head1(r) ==
            IF ~r.ok THEN (IF r.fatal THEN r ELSE AppendKind(i, "Many1", r))
            ELSE Cons(r.val, Many1Loop(F, src, r.pos))
    IN  Head1(F(src, i))

\* multi::separated_list0: a separator that no element follows is given back
RECURSIVE SeparatedList0Loop(_, _, _, _)
SeparatedList0Loop(Sep(_, _), F(_, _), src, i) ==
    LET Elem(r) ==
            IF ~r.ok THEN (IF r.fatal THEN r ELSE Ok(i, <<>>))
            ELSE Cons(r.val, SeparatedList0Loop(Sep, F, src, r.pos))
        Step(rs) ==
            IF ~rs.ok THEN (IF rs.fatal THEN rs ELSE Ok(i, <<>>))
            ELSE IF InputLen(src, rs.pos) = InputLen(src, i)
                 THEN FromErrorKind(rs.pos, "SeparatedList")
            ELSE Elem(F(src, rs.pos))
    IN  Step(Sep(src, i))

SeparatedList0(Sep(_, _), F(_, _), src, i) ==
    LET Head1(r) ==
            IF ~r.ok THEN (IF r.fatal THEN r ELSE Ok(i, <<>>))
            ELSE Cons(r.val, SeparatedList0Loop(Sep, F, src, r.pos))
    IN  Head1(F(src, i))

\* branch::alt: the first alternative that succeeds (or fails fatally).
\* VerboseError keeps the default ParseError::or, so of the failures only the
\* last alternative's error is kept, and (i, Nom(Alt)) is appended to it.
Alt4(p, a1, a2, a3, a4) ==
    IF \/ a1.ok \/ a1.fatal
       \/ a2.ok \/ a2.fatal
       \/ a3.ok \/ a3.fatal
       \/ a4.ok \/ a4.fatal
    THEN IF a1.ok \/ a1.fatal THEN a1
         ELSE IF a2.ok \/ a2.fatal THEN a2
         ELSE IF a3.ok \/ a3.fatal THEN a3
         ELSE a4
    ELSE AppendKind(p, "Alt", a4)
\* an alt that prefers its later alternatives
Alt5LastFirst(p, a1, a2, a3, a4, a5) ==
    IF a5.ok \/ a5.fatal THEN a5
    ELSE IF a4.ok \/ a4.fatal THEN a4
    ELSE IF a3.ok \/ a3.fatal THEN a3
    ELSE IF a2.ok \/ a2.fatal THEN a2
    ELSE IF a1.ok \/ a1.fatal THEN a1
    ELSE AppendKind(p, "Alt", a5)
Alt5(p, a1, a2, a3, a4, a5) ==
    IF \/ a1.ok \/ a1.fatal
       \/ a2.ok \/ a2.fatal
       \/ a3.ok \/ a3.fatal
       \/ a4.ok \/ a4.fatal
       \/ a5.ok \/ a5.fatal
    THEN IF a1.ok \/ a1.fatal THEN a1
         ELSE IF a2.ok \/ a2.fatal THEN a2
         ELSE IF a3.ok \/ a3.fatal THEN a3
         ELSE IF a4.ok \/ a4.fatal THEN a4
         ELSE a5
    ELSE AppendKind(p, "Alt", a5)

(***************************************************************************)
(* Literals of the grammar.                                                *)
(***************************************************************************)
KwLet == <<"l", "e", "t">>
KwIn == <<"i", "n">>
\* implementations.rs:15
RESERVED_KEYWORDS == <<KwLet, KwIn>>
EqSep == <<" ", "=", " ">>
CommaSep == <<",", " ">>
ColonSep == <<":", " ">>
ArrowSep == <<" ", "-", ">", " ">>
FatArrow == <<" ", "=", ">">>
NumChars == AsciiDigit \cup {"_"}

(***************************************************************************)
(* u64 values: four limbs of base 10^5, most significant first, so that    *)
(* the arithmetic of str::parse::<u64> keeps its width.                    *)
(***************************************************************************)
U64Max == <<18446, 74407, 37095, 51615>>
U64(n) == <<0, 0, 0, n>>

DigitValue(c) == (CHOOSE k \in 1..10 : DigitChars[k] = c) - 1

LimbsGreater(a, b) ==
    \E k \in 1..4 : a[k] > b[k] /\ \A j \in 1..(k - 1) : a[j] = b[j]

\* the digits without their leading zeros
Significant(digits) ==
    LET zeros == CHOOSE n \in 0..Len(digits) :
                     /\ \A k \in 1..n : digits[k] = "0"
                     /\ (n = Len(digits) \/ digits[n + 1] # "0")
    IN  SubSeq(digits, zeros + 1, Len(digits))

\* the value of five digits
Limb(d) ==
    DigitValue(d[1]) * 10000 + DigitValue(d[2]) * 1000 + DigitValue(d[3]) * 100
        + DigitValue(d[4]) * 10 + DigitValue(d[5])

\* the limbs of at most twenty significant digits
Limbs(sig) ==
    LET pad == 20 - Len(sig)
        padded == [k \in 1..20 |-> IF k <= pad THEN "0" ELSE sig[k - pad]]
    IN  [j \in 1..4 |-> Limb(SubSeq(padded, 5 * j - 4, 5 * j))]

\* <u64 as FromStr>::from_str on a string of ASCII digits: Empty on the empty
\* string; checked_mul(10) and checked_add(digit) for every digit, which is
\* PosOverflow exactly when the number is above u64::MAX
FromStrOf(digits, sig) ==
    IF digits = <<>> THEN [ok |-> FALSE, val |-> U64(0), err |-> "Empty"]
    ELSE IF Len(sig) > 20 \/ LimbsGreater(Limbs(sig), U64Max)
    THEN [ok |-> FALSE, val |-> U64(0), err |-> "PosOverflow"]
    ELSE [ok |-> TRUE, val |-> Limbs(sig), err |-> "none"]
FromStr(digits) == FromStrOf(digits, Significant(digits))

(***************************************************************************)
(* AST constructors (ast.rs).                                              *)
(***************************************************************************)
\* Identifier(LocatedSpan): the text, with the offset and line where it starts
Identifier(fragment, offset, line) ==
    [fragment |-> fragment, offset |-> offset, line |-> line]
\* an equality of identifiers that looks at the text only
IdentifierEqByText(a, b) == a.fragment = b.fragment
\* #[derive(PartialEq)] on Identifier(Input): LocatedSpan's eq compares the
\* line, the offset and the fragment
IdentifierEq(a, b) ==
    /\ a.line = b.line
    /\ a.offset = b.offset
    /\ a.fragment = b.fragment
Number(v) == [tag |-> "Number", n |-> v]
Name(id) == [tag |-> "Name", id |-> id]
FnInvocationExpr(inv) == [tag |-> "FnInvocation", inv |-> inv]
LetIn(assignments, expr) == [tag |-> "LetIn", let |-> assignments, in |-> expr]
Arithmetic(lhs, op, rhs) == [tag |-> "Arithmetic", lhs |-> lhs, op |-> op, rhs |-> rhs]
FnInvocation(fn_name, args) == [fn_name |-> fn_name, args |-> args]
Parameter(name, kcl_type) == [name |-> name, kcl_type |-> kcl_type]
Assignment(identifier, value) == [identifier |-> identifier, value |-> value]
FnDef(fn_name, params, return_type, body) ==
    [fn_name |-> fn_name, params |-> params, return_type |-> return_type,
     body |-> body]
AbstractSyntaxTree(functions) == [functions |-> functions]

(***************************************************************************)
(* Grammar productions (parser/implementations.rs).                        *)
(***************************************************************************)
RECURSIVE ExpressionParse(_, _)


\* the tag and one_char parsers that the productions use
EqSepTag(src, p) == Tag(src, p, EqSep)
CommaSepTag(src, p) == Tag(src, p, CommaSep)
ColonSepTag(src, p) == Tag(src, p, ColonSep)
ArrowSepTag(src, p) == Tag(src, p, ArrowSep)
FatArrowTag(src, p) == Tag(src, p, FatArrow)
KwLetTag(src, p) == Tag(src, p, KwLet)
KwInTag(src, p) == Tag(src, p, KwIn)
OpenParen(src, p) == OneChar(src, p, "(")
CloseParen(src, p) == OneChar(src, p, ")")
Space(src, p) == OneChar(src, p, " ")

\* bracketed(child_parser): '(', the child, ')'
Bracketed(F(_, _), src, p) ==
    Tuple3(OpenParen, F, CloseParen, Second, src, p)

\* Identifier::parse_maybe_reserved: recognize(preceded(alpha1, alphanumeric0))
IdentifierOfSpan(span) == Identifier(span.fragment, span.offset, span.line)
IdentifierParseMaybeReserved(src, p) ==
    Map(Recognize(src, p, Tuple2(Alpha1, Alphanumeric0, All, src, p)),
        IdentifierOfSpan)

\* the closure's format!("{id} is a reserved keyword and cannot be used as
\* the name of a function, binding, type etc"), for the words it is made for
ReservedKeywordMessage(fragment) ==
    CASE fragment = KwLet -> "let is a reserved keyword and cannot be used"
      [] fragment = KwIn -> "in is a reserved keyword and cannot be used"

\* the closure is_reserved_keyword of Identifier::parse, and one that knows
\* the first keyword only
IsReservedKeywordLetOnly(id) ==
    IF id.fragment = KwLet
    THEN [ok |-> FALSE, val |-> id, err |-> ReservedKeywordMessage(id.fragment)]
    ELSE [ok |-> TRUE, val |-> id, err |-> "none"]
\* a closure that reserves no word
IsReservedKeywordNever(id) == [ok |-> TRUE, val |-> id, err |-> "none"]
IsReservedKeyword(id) ==
    IF \E k \in 1..Len(RESERVED_KEYWORDS) : RESERVED_KEYWORDS[k] = id.fragment
    THEN [ok |-> FALSE, val |-> id, err |-> ReservedKeywordMessage(id.fragment)]
    ELSE [ok |-> TRUE, val |-> id, err |-> "none"]

\* Identifier::parse: context("identifier", map_res(parse_maybe_reserved, ..))
IdentifierParse(src, p) ==
    Context(p, "identifier",
            MapRes(p, IdentifierParseMaybeReserved(src, p), IsReservedKeyword))

\* Parameter::parse: separated_pair(Identifier, ": ", Identifier)
ParameterOf(v) == Parameter(v[1], v[3])
ParameterParse(src, p) ==
    Context(p, "parameter",
            Tuple3(IdentifierParse, ColonSepTag, IdentifierParse, ParameterOf,
                   src, p))

\* Operator::parse: alt of the four characters, mapped to the enumerant
OperatorOf(symbol) ==
    CASE symbol = "+" -> [ok |-> TRUE, val |-> "Add", err |-> "none"]
      [] symbol = "-" -> [ok |-> TRUE, val |-> "Sub", err |-> "none"]
      [] symbol = "*" -> [ok |-> TRUE, val |-> "Mul", err |-> "none"]
      [] symbol = "/" -> [ok |-> TRUE, val |-> "Div", err |-> "none"]
      [] OTHER -> [ok |-> FALSE, val |-> symbol, err |-> "Invalid operator"]

OperatorParse(src, p) ==
    Context(p, "operator",
            MapRes(p, Alt4(p, OneChar(src, p, "+"), OneChar(src, p, "-"),
                           OneChar(src, p, "*"), OneChar(src, p, "/")),
                   OperatorOf))

\* Expression::parse_num: many1(one_of("0123456789_")), the digits parsed as u64
\* one_of consumes one character of the list, so many1 of it consumes the
\* longest run of them, and fails as one_of does when the run is empty
IsNumChar(c) == c \in NumChars
NumChar(src, p) == OneOf(src, p, NumChars)
Many1NumChar(src, p) ==
    LET n == LeadingRun(src, p, IsNumChar)
    IN  IF n = 0 THEN AppendKind(p, "Many1", NumChar(src, p))
        ELSE Take(src, p, n)
DigitsOnly(chars) == SelectSeq(chars, LAMBDA c : c \in AsciiDigit)
NumberOfChars(chars) ==
    LET parsed == FromStr(DigitsOnly(chars))
    IN  [ok |-> parsed.ok, val |-> Number(parsed.val), err |-> parsed.err]

ParseNum(src, p) ==
    Context(p, "number", MapRes(p, Many1NumChar(src, p), NumberOfChars))

\* Expression::parse_arithmetic: bracketed(expr ' ' operator ' ' expr)
SpacedOperator(src, p) == Tuple3(Space, OperatorParse, Space, Second, src, p)
ArithmeticOf(v) == Arithmetic(v[1], v[2], v[3])
ArithmeticParts(src, p) ==
    Tuple3(ExpressionParse, SpacedOperator, ExpressionParse, ArithmeticOf, src, p)
ParseArithmetic(src, p) ==
    Context(p, "arithmetic", Bracketed(ArithmeticParts, src, p))

\* Assignment::parse: identifier " = " expression
AssignmentOf(v) == Assignment(v[1], v[3])
AssignmentParse(src, p) ==
    Context(p, "assignment",
            Tuple3(IdentifierParse, EqSepTag, ExpressionParse, AssignmentOf,
                   src, p))

\* Expression::parse_let_in
\* the element of its many1: multispace0, assignment, newline
LetInGroup(src, p) == Tuple3(Multispace0, AssignmentParse, Newline, Second, src, p)
\* many1 of the groups; the variant is many0, which takes no group at all
LetInGroupsOrNone(src, p) == Many0(LetInGroup, src, p)
LetInGroups(src, p) == Many1(LetInGroup, src, p)
\* terminated(preceded(multispace0, tag("in")), multispace0)
InKeyword(src, p) == Tuple3(Multispace0, KwInTag, Multispace0, Second, src, p)
LetInOf(v) == LetIn(v[3], v[5])
ParseLetIn(src, p) ==
    Context(p, "let-in",
            Tuple5(KwLetTag, Newline, LetInGroups, InKeyword, ExpressionParse,
                   LetInOf, src, p))

\* FnInvocation::parse: identifier '(' expressions separated by ", " ')'
\* a looser separator: a comma and any whitespace
CommaTag(src, p) == Tag(src, p, <<",">>)
CommaThenSpaces(src, p) == Tuple2(CommaTag, Multispace0, First, src, p)
ExpressionListLooseSep(src, p) ==
    SeparatedList0(CommaThenSpaces, ExpressionParse, src, p)
ExpressionList(src, p) == SeparatedList0(CommaSepTag, ExpressionParse, src, p)
FnInvocationOf(v) == FnInvocation(v[1], v[3])
FnInvocationParse(src, p) ==
    Context(p, "function invocation",
            Tuple4(IdentifierParse, OpenParen, ExpressionList, CloseParen,
                   FnInvocationOf, src, p))

\* Expression::parse: alt over the five forms, in this order
ExpressionParse(src, p) ==
    Context(p, "expression",
        Alt5(p, ParseArithmetic(src, p),
                ParseNum(src, p),
                ParseLetIn(src, p),
                Map(FnInvocationParse(src, p), FnInvocationExpr),
                Map(IdentifierParse(src, p), Name)))

(***************************************************************************)
(* The inputs on which a call of Expression::parse on the input p calls    *)
(* Expression::parse again, one set for each alternative that does.        *)
(***************************************************************************)
\* an arithmetic without its opening parenthesis would start with itself
ArithmeticSitesUnbracketed(src, p) == {p}
\* parse_arithmetic: behind '(' and behind the spaced operator
ArithmeticSites(src, p) ==
    LET open == OpenParen(src, p)
        lhs == ExpressionParse(src, open.pos)
        op == SpacedOperator(src, lhs.pos)
    IN  IF ~open.ok THEN {}
        ELSE {open.pos} \cup (IF lhs.ok /\ op.ok THEN {op.pos} ELSE {})

\* the groups of parse_let_in from i on: behind each identifier and " = "
RECURSIVE LetInGroupSites(_, _)
LetInGroupSites(src, i) ==
    LET id == IdentifierParse(src, Multispace0(src, i).pos)
        eq == EqSepTag(src, id.pos)
        group == LetInGroup(src, i)
    IN  (IF id.ok /\ eq.ok THEN {eq.pos} ELSE {})
            \cup (IF group.ok /\ InputLen(src, group.pos) < InputLen(src, i)
                  THEN LetInGroupSites(src, group.pos)
                  ELSE {})

\* parse_let_in: in the groups behind "let" and the newline, and behind "in"
LetInSites(src, p) ==
    LET let == Tuple2(KwLetTag, Newline, All, src, p)
        groups == LetInGroups(src, let.pos)
        in == InKeyword(src, groups.pos)
    IN  IF ~let.ok THEN {}
        ELSE LetInGroupSites(src, let.pos)
                \cup (IF groups.ok /\ in.ok THEN {in.pos} ELSE {})

\* separated_list0 of expressions from i on: at i and behind each ", "
RECURSIVE ExpressionListSites(_, _)
ExpressionListSites(src, i) ==
    LET element == ExpressionParse(src, i)
        sep == CommaSepTag(src, element.pos)
    IN  {i} \cup (IF element.ok /\ sep.ok
                  THEN ExpressionListSites(src, sep.pos)
                  ELSE {})

\* FnInvocation::parse: in the list behind the identifier and '('
FnInvocationSites(src, p) ==
    LET id == IdentifierParse(src, p)
        open == OpenParen(src, id.pos)
    IN  IF id.ok /\ open.ok THEN ExpressionListSites(src, open.pos) ELSE {}

\* Expression::parse: the alternatives alt tries, up to the first success
ExpressionCallSites(src, p) ==
    ArithmeticSites(src, p)
        \cup (IF ParseArithmetic(src, p).ok \/ ParseNum(src, p).ok THEN {}
              ELSE LetInSites(src, p)
                      \cup (IF ParseLetIn(src, p).ok THEN {}
                            ELSE FnInvocationSites(src, p)))

\* FnDef::parse: the five parts, each in its context
FnName(src, p) == ContextOf("function name", IdentifierParse, src, p)
FnEq(src, p) ==
    ContextOf("= between function name and definition", EqSepTag, src, p)
ParameterList(src, p) == SeparatedList0(CommaSepTag, ParameterParse, src, p)
FnParameterList(src, p) == ContextOf("parameter list", ParameterList, src, p)
FnReturnArrow(src, p) == ContextOf("return type arrow ->", ArrowSepTag, src, p)
SignatureParts(src, p) ==
    Tuple3(FnParameterList, FnReturnArrow, IdentifierParse, All, src, p)
BracketedSignature(src, p) == Bracketed(SignatureParts, src, p)
TypeSignature(src, p) == ContextOf("type signature", BracketedSignature, src, p)
\* terminated(tag(" =>"), multispace0)
FatArrowThenSpace(src, p) == Tuple2(FatArrowTag, Multispace0, First, src, p)
\* the variant is tag(" => "): exactly one space
FatArrowOneSpace(src, p) == Tag(src, p, FatArrow \o <<" ">>)
FnFatArrowOneSpace(src, p) ==
    ContextOf("=> between function header and body", FatArrowOneSpace, src, p)
FnFatArrow(src, p) ==
    ContextOf("=> between function header and body", FatArrowThenSpace, src, p)
\* a body that takes the whitespace behind its expression
ExpressionThenSpace(src, p) == Tuple2(ExpressionParse, Multispace0, First, src, p)
FnBodyThenSpace(src, p) == ContextOf("function body", ExpressionThenSpace, src, p)
FnBody(src, p) == ContextOf("function body", ExpressionParse, src, p)
FnDefOf(v) == FnDef(v[1], v[3][1], v[3][3], v[5])
FnDefParse(src, p) ==
    Context(p, "function definition",
            Tuple5(FnName, FnEq, TypeSignature, FnFatArrow, FnBody, FnDefOf,
                   src, p))

\* AbstractSyntaxTree::parse: all_consuming(many0(FnDef::parse))
AbstractSyntaxTreeParse(src, p) ==
    Context(p, "program root",
            Map(AllConsuming(src, Many0(FnDefParse, src, p)),
                AbstractSyntaxTree))

\* DisplayableError::new
DisplayableError(src, e) ==
    [input |-> e.pos, kind |-> e.kind, what |-> e.what,
     line |-> e.pos.line, column |-> GetUtf8Column(src, e.pos.offset)]

\* compiler::parse: Ok((remaining input, ast)) or Err(the displayable errors)
DisplayableErrors(src, r) ==
    IF r.ok THEN r
    ELSE [r EXCEPT !.errors =
             [k \in 1..Len(r.errors) |-> DisplayableError(src, r.errors[k])]]
Parse(src) == DisplayableErrors(src, AbstractSyntaxTreeParse(src, InputNew))

\* AbstractSyntaxTree::all_functions: each function's name and where it is
SourceRange(src, id) ==
    [start_line |-> id.line,
     start_column |-> GetUtf8Column(src, id.offset),
     length |-> ByteLen(id.fragment)]

AllFunctions(src, ast) ==
    [k \in 1..Len(ast.functions) |->
        [name |-> ast.functions[k].fn_name.fragment,
         range |-> SourceRange(src, ast.functions[k].fn_name)]]

(***************************************************************************)
(* Test vectors.  A vector is [shape, n, site, parts]: the text is the     *)
(* concatenation of parts; shape says how the parts were laid out, n how   *)
(* many repeated elements there are, and site which part (0: none) was     *)
(* replaced in an otherwise well-formed text.                              *)
(***************************************************************************)
MaxParams == 2
MaxGroups == 2
MaxFns == 2
MaxNameLen == 2
MaxNumLen == 3

Vector(shape, n, site, parts) ==
    [shape |-> shape, n |-> n, site |-> site, parts |-> parts]
TextOf(v) == Concat(v.parts)

\* where part i of a vector starts
OffsetOfPart(parts, i) == ByteLen(Concat(SubSeq(parts, 1, i - 1)))
LineOfPart(parts, i) == 1 + CountNewlines(Concat(SubSeq(parts, 1, i - 1)))
IdAtPart(parts, i) ==
    Identifier(parts[i], OffsetOfPart(parts, i), LineOfPart(parts, i))

\* the ways a separator is mistyped: a space (or end character) missing or doubled
SepVariants(s) ==
    {Tail(s), SubSeq(s, 1, Len(s) - 1), <<Head(s)>> \o s, s \o <<s[Len(s)]>>, <<>>}
        \ {s}

\* what stands where an identifier is expected
BadIdentifiers == {KwLet, KwIn, <<"1", "x">>, <<"n", "_", "h">>, <<>>}
GoodIdentifiers == {<<"i", "n", "x">>, <<"l", "e", "t", "t", "e", "r">>, <<"n", "1">>,
        <<"U+4E9E", "U+7576">>}
Whitespaces == {<<>>, <<" ">>, <<"\n">>, <<" ", " ", "\n", "\t", " ", "\r", "\n", " ", " ",
        " ", " ">>}

Names == <<<<"r", "a", "d", "i", "u", "s">>, <<"c", "e", "n", "t", "e", "r">>, <<"x">>,
        <<"y">>>>
Types == <<<<"D", "i", "s", "t", "a", "n", "c", "e">>, <<"P", "o", "i", "n", "t", "2", "D">>,
        <<"T">>, <<"U">>>>

\* expression texts, with the AST each parses to when it starts at (off, line)
ExprTexts ==
    <<<<"c", "i", "r", "c", "l", "e", "(", "r", "a", "d", "i", "u", "s", ")">>, <<"1", "0",
            "0">>, <<"(", "1", "4", " ", "*", " ", "1", "0", "0", ")">>, <<"r", "a", "d", "i",
            "u", "s">>,
      <<"l", "e", "t", "\n", " ", " ", " ", " ", "r", "a", "d", "i", "u", "s", " ", "=", " ",
              "(", "1", "4", " ", "*", " ", "1", "0", "0", ")", "\n", " ", " ", "i", "n", " ",
              "c", "i", "r", "c", "l", "e", "(", "r", "a", "d", "i", "u", "s", ",", " ", "c",
              "e", "n", "t", "e", "r", ")">>,
      <<"(", "f", "(", ")", " ", "/", " ", "(", "1", "_", "0", " ", "-", " ", "x", ")", ")">>,
              <<"1">>, <<"x">>, <<"y">>, <<"f", "o", "o", "(", "1", "0", "0", ")">>>>

ExprAst(k, off, line) ==
    CASE k = 1 -> FnInvocationExpr(FnInvocation(
                      Identifier(<<"c", "i", "r", "c", "l", "e">>, off, line),
                      <<Name(Identifier(<<"r", "a", "d", "i", "u", "s">>, off + 7, line))>>))
      [] k = 2 -> Number(U64(100))
      [] k = 3 -> Arithmetic(Number(U64(14)), "Mul", Number(U64(100)))
      [] k = 4 -> Name(Identifier(<<"r", "a", "d", "i", "u", "s">>, off, line))
      [] k = 5 -> LetIn(
                      <<Assignment(Identifier(<<"r", "a", "d", "i", "u", "s">>, off + 8,
                              line + 1),
                                   Arithmetic(Number(U64(14)), "Mul", Number(U64(100))))>>,
                      FnInvocationExpr(FnInvocation(
                          Identifier(<<"c", "i", "r", "c", "l", "e">>, off + 33, line + 2),
                          <<Name(Identifier(<<"r", "a", "d", "i", "u", "s">>, off + 40,
                                  line + 2)),
                            Name(Identifier(<<"c", "e", "n", "t", "e", "r">>, off + 48,
                                    line + 2))>>)))
      [] k = 6 -> Arithmetic(
                      FnInvocationExpr(FnInvocation(Identifier(<<"f">>, off + 1, line), <<>>)),
                      "Div",
                      Arithmetic(Number(U64(10)), "Sub",
                                 Name(Identifier(<<"x">>, off + 14, line))))
      [] k = 7 -> Number(U64(1))
      [] k = 8 -> Name(Identifier(<<"x">>, off, line))
      [] k = 9 -> Name(Identifier(<<"y">>, off, line))
      [] k = 10 -> FnInvocationExpr(FnInvocation(
                       Identifier(<<"f", "o", "o">>, off, line), <<Number(U64(100))>>))

ExprIndex(text) == CHOOSE k \in 1..Len(ExprTexts) : ExprTexts[k] = text
IsExprText(text) == \E k \in 1..Len(ExprTexts) : ExprTexts[k] = text

\* texts that no expression starts
BadExprTexts == {<<>>, <<"+">>, <<"(", "1", " ", "+", "2", ")">>, <<"l", "e", "t", "\n", "i",
        "n", " ", "x">>, <<"_">>}

(***************************************************************************)
(* Function definition vectors:                                            *)
(*   name " = " "(" {[", "] name ": " type} " -> " type ")" " =>" ws body  *)
(***************************************************************************)
RECURSIVE ParamParts(_)
ParamParts(n) ==
    IF n = 0 THEN <<>>
    ELSE ParamParts(n - 1)
         \o <<IF n = 1 THEN <<>> ELSE CommaSep, Names[n], ColonSep, Types[n]>>

FnDefParts(n, ws, body) ==
    <<<<"b", "i", "g", "C", "i", "r", "c", "l", "e">>, EqSep, <<"(">>>> \o ParamParts(n)
        \o <<ArrowSep, <<"S", "o", "l", "i", "d", "2", "D">>, <<")">>, FatArrow, ws, body>>

\* the kind of part i in a function definition with n parameters
FnDefPartKind(n, i) ==
    LET j == i - (3 + 4 * n)
        k == (i - 4) % 4
    IN  CASE i = 1 -> "id"
          [] i = 2 -> "sep"
          [] i = 3 -> "lit"
          [] i > 3 /\ j <= 0 ->
                (CASE k = 0 -> (IF i = 4 THEN "none" ELSE "sep")
                   [] k = 1 -> "id"
                   [] k = 2 -> "sep"
                   [] k = 3 -> "id")
          [] j = 1 -> "sep"
          [] j = 2 -> "id"
          [] j = 3 -> "lit"
          [] j = 4 -> "sep"
          [] j = 5 -> "ws"
          [] j = 6 -> "body"

\* what is typed instead of the single newline
BadNewlines == {<<>>, <<" ">>, <<"\r", "\n">>, <<" ", "\n">>}
\* what is typed instead of a keyword
BadKeywords == {<<>>, <<"i">>, <<"I", "n">>, <<"l", "e">>, <<"l", "e", "t", "s">>}

Replacements(kind, original) ==
    CASE kind = "sep" -> SepVariants(original)
      [] kind = "id" -> BadIdentifiers \cup GoodIdentifiers
      [] kind = "lit" -> {<<>>, original \o original}
      [] kind = "ws" -> Whitespaces \ {original}
      [] kind = "nl" -> BadNewlines
      [] kind = "kw" -> BadKeywords
      [] kind = "body" ->
            ({ExprTexts[k] : k \in 1..Len(ExprTexts)} \cup BadExprTexts) \ {original}
      [] kind = "none" -> {}

\* a well-formed text and every text that differs from it in one part
OneSiteVectors(shape, n, base, Kind(_, _)) ==
    {Vector(shape, n, 0, base)}
        \cup UNION {{Vector(shape, n, i, [base EXCEPT ![i] = r]) :
                        r \in Replacements(Kind(n, i), base[i])} : i \in 1..Len(base)}

FnDefVectors ==
    UNION {OneSiteVectors("fndef", n, FnDefParts(n, <<" ">>, ExprTexts[1]), FnDefPartKind) :
              n \in 0..MaxParams}

(***************************************************************************)
(* Let-in vectors:                                                         *)
(*   "let" "\n" {ws name " = " value "\n"} ws "in" ws body                 *)
(***************************************************************************)
GroupNames == <<<<"x">>, <<"y">>, <<"r", "a", "d", "i", "u", "s">>, <<"c", "e", "n", "t", "e",
        "r">>>>
GroupValues == <<ExprTexts[7], ExprTexts[8], ExprTexts[3], ExprTexts[2]>>

RECURSIVE GroupParts(_)
GroupParts(n) ==
    IF n = 0 THEN <<>>
    ELSE GroupParts(n - 1)
         \o <<<<" ", " ", " ", " ">>, GroupNames[n], EqSep, GroupValues[n], <<"\n">>>>

LetInParts(n) ==
    <<KwLet, <<"\n">>>> \o GroupParts(n) \o <<<<>>, KwIn, <<" ">>, ExprTexts[9]>>

LetInPartKind(n, i) ==
    LET j == i - (2 + 5 * n)
        k == (i - 3) % 5
    IN  CASE i = 1 -> "kw"
          [] i = 2 -> "nl"
          [] i > 2 /\ j <= 0 ->
                (CASE k = 0 -> "ws"
                   [] k = 1 -> "id"
                   [] k = 2 -> "sep"
                   [] k = 3 -> "body"
                   [] k = 4 -> "nl")
          [] j = 1 -> "ws"
          [] j = 2 -> "kw"
          [] j = 3 -> "ws"
          [] j = 4 -> "body"

LetInVectors ==
    UNION {OneSiteVectors("letin", n, LetInParts(n), LetInPartKind) : n \in 0..MaxGroups}

(***************************************************************************)
(* Assignment vectors: name " = " value, for every short name over a small *)
(* alphabet and for the names of the unit tests.                           *)
(***************************************************************************)
NameAlphabet == {"n", "h", "U+4E9E", "1", "_", " ", "("}

RECURSIVE Strings(_, _)
Strings(alphabet, len) ==
    IF len = 0 THEN {<<>>}
    ELSE {<<c>> \o s : c \in alphabet, s \in Strings(alphabet, len - 1)}

TestedNames ==
    {<<"n">>, <<"n", "1", "2", "3">>, <<"U+4E9E", "U+7576">>, <<"n", "(">>, <<"1", "2", "3">>,
            <<"n", " ", "h">>, KwLet, KwIn,
     <<"0", "0", "0", "0", "0", "0", "0", "a", "a", "s", "s", "d", "f", "a", "s", "d", "f",
             "a", "s", "d", "f", "a", "s", "d", "f", "0", "1", "3", "4", "2", "3", "4", "5",
             "2", "3", "4", "2", "1", "3", "4", "2", "3", "4", "2", "3", "4", "2", "3", "4">>,
             <<"n", "_", "h", "e", "l", "l", "o">>,
     <<"n", " ", "=", " ", "1">>, <<"n", " ", "=", " ", "f", "(">>, <<"n", " ", "=", " ", "1",
             "_">>, <<"i", "n", "x">>, <<"I", "n">>}

BindingNames ==
    TestedNames \cup UNION {Strings(NameAlphabet, len) : len \in 1..MaxNameLen}

AssignmentVectors ==
    {Vector("assign", 0, 0, <<name, EqSep, ExprTexts[k]>>) :
        name \in BindingNames, k \in {2, 10}}

(***************************************************************************)
(* Number vectors: a numeral and what follows it.                          *)
(***************************************************************************)
NumAlphabet == {"0", "1", "9", "_"}

\* a numeral from its digits, -1 standing for an underscore
Numeral(ns) == [k \in 1..Len(ns) |-> IF ns[k] < 0 THEN "_" ELSE DigitChars[ns[k] + 1]]

\* numerals around 2^64 - 1 = 18446744073709551615
NearU64Max ==
    {Numeral(<<1, 8, 4, 4, 6, 7, 4, 4, 0, 7, 3, 7, 0, 9, 5, 5, 1, 6, 1>>)
         \o <<DigitChars[d]>> : d \in 1..10}
    \cup {Numeral(<<1, 8, -1, 4, 4, 6, -1, 7, 4, 4, -1, 0, 7, 3, -1, 7, 0, 9, -1, 5, 5, 1, -1,
            6, 1, 5>>),
          Numeral(<<1, -1, 8, 4, 4, 6, 7, 4, 4, 0, 7, 3, 7, 0, 9, 5, 5, 1, 6, 1, 6, -1>>),
          Numeral(<<0, 0, 1, 8, 4, 4, 6, 7, 4, 4, 0, 7, 3, 7, 0, 9, 5, 5, 1, 6, 1, 5>>),
          Numeral(<<0, 1, 8, 4, 4, 6, 7, 4, 4, 0, 7, 3, 7, 0, 9, 5, 5, 1, 6, 1, 6>>),
          Numeral(<<9, 9, 9, 9, 9, 9, 9, 9, 9, 9, 9, 9, 9, 9, 9, 9, 9, 9, 9, 9>>),
          Numeral(<<0, 9, 9, 9, 9, 9, 9, 9, 9, 9, 9, 9, 9, 9, 9, 9, 9, 9, 9, 9>>),
          Numeral(<<1, 0, 0, 0, 0, 0, 0, 0, 0, 0, 0, 0, 0, 0, 0, 0, 0, 0, 0, 0, 0>>),
          Numeral(<<1, 8, 4, 4, 6, 7, 4, 4, 0, 7, 3, 7, 0, 9, 5, 5, 1, 6, 1, 5, 0>>),
          Numeral(<<1, 8, 4, 4, 6, 7, 4, 4, 0, 7, 3, 7, 0, 9, 6, 0, 0, 0, 0, 0>>),
          Numeral(<<1, 8, 4, 4, 6, 7, 4, 4, 0, 7, 3, 7, 0, 9, 5, 0, 0, 0, 0, 0>>),
          Numeral(<<2, 0, 0, 0, 0, 0, 0, 0, 0, 0, 0, 0, 0, 0, 0, 0, 0, 0, 0, 0>>)}

Numerals ==
    NearU64Max \cup UNION {Strings(NumAlphabet, len) : len \in 0..MaxNumLen}

NumberVectors ==
    {Vector("num", 0, 0, <<numeral, rest>>) :
        numeral \in Numerals, rest \in {<<>>, <<"a">>, <<" ", "1">>, <<")">>}}

(***************************************************************************)
(* Identifier vectors: a word and what follows it.                         *)
(***************************************************************************)
Words ==
    BadIdentifiers \cup GoodIdentifiers \cup BadKeywords
        \cup {<<"n">>, <<"l", "e", "t", "1">>, <<"i", "n", "2">>, <<"l", "e", "t", "i", "n">>,
                <<"L", "e", "t">>, <<"I", "N">>, <<"l">>}

IdentifierVectors ==
    {Vector("ident", 0, 0, <<word, rest>>) :
        word \in Words, rest \in {<<>>, <<" ">>, <<"(">>, <<" ", "=", " ", "1">>, <<"_", "x">>,
                <<"\n">>}}

(***************************************************************************)
(* Program vectors: function definitions one after the other, with what    *)
(* stands between and after them.                                          *)
(***************************************************************************)
ProgramFns ==
    <<Concat(FnDefParts(1, <<" ">>, ExprTexts[1])),
      Concat(FnDefParts(0, <<"\n", " ", " ">>, ExprTexts[5])),
      Concat(FnDefParts(2, <<>>, ExprTexts[6])),
      Concat(FnDefParts(1, <<"\n">>, ExprTexts[3]))>>

\* function definitions whose body fails in a nested let-in or arithmetic
BrokenBodies ==
    {<<"f", " ", "=", " ", "(", "x", ":", " ", "T", " ", "-", ">", " ", "T", ")", " ", "=",
            ">", " ", "l", "e", "t", "\n", " ", " ", "a", " ", "=", " ", "(", "1", " ", "+",
            " ", "(", "2", " ", "*", " ", ")", ")", "\n", "i", "n", " ", "a">>,
     <<"f", " ", "=", " ", "(", "x", ":", " ", "T", " ", "-", ">", " ", "T", ")", " ", "=",
             ">", " ", "g", "(", "1", ",", " ", "(", "2", " ", "+", " ", "l", "e", "t", ")",
             ")">>}

\* function definitions that fail, and a text that starts none
BrokenFns ==
    BrokenBodies
        \cup {<<"f", " ", "=", " ", "(", "x", ":", " ", "T", " ", "-", ">", " ", "T", ")", " ",
                "=", ">", " ", "(", "1", " ", "+", " ", "2">>,
              <<"f", " ", "=", " ", "(", "x", ":", " ", "T", " ", "-", ">", " ", "T", ")", " ",
                      "=", ">">>,
              <<"f", " ", "=", " ", "(", " ", "-", ">", " ", "T", ")", " ", "=", ">", " ", "g",
                      " ", "(", "1", ")">>,
              <<"1", "2", "3", "a", "b", "c">>}

RECURSIVE ProgramParts(_)
ProgramParts(n) ==
    IF n = 0 THEN <<<<>>>> ELSE <<ProgramFns[n], <<>>>> \o ProgramParts(n - 1)

ProgramPartKind(n, i) == IF i % 2 = 1 /\ i < 2 * n THEN "fn" ELSE "gap"

ProgramReplacements(kind) ==
    IF kind = "fn" THEN BrokenFns ELSE {<<" ">>, <<"\n">>, <<"a", "b", "c">>, <<";">>}

ProgramVectors ==
    LET base(n) == ProgramParts(n)
    IN  UNION { {Vector("program", n, 0, base(n))}
                 \cup UNION { {Vector("program", n, i, [base(n) EXCEPT ![i] = r]) :
                                 r \in ProgramReplacements(ProgramPartKind(n, i))} :
                             i \in 1..Len(base(n))} : n \in 0..MaxFns}

(***************************************************************************)
(* Invocation vectors:  name "(" {[", "] argument} ")"                     *)
(***************************************************************************)
MaxArgs == 2

InvocationArgs == <<ExprTexts[7], ExprTexts[3], ExprTexts[10], ExprTexts[4], ExprTexts[2]>>

RECURSIVE ArgParts(_)
ArgParts(n) ==
    IF n = 0 THEN <<>>
    ELSE ArgParts(n - 1) \o <<IF n = 1 THEN <<>> ELSE CommaSep, InvocationArgs[n]>>

InvocationParts(n) ==
    <<<<"s", "p", "h", "e", "r", "e">>, <<"(">>>> \o ArgParts(n) \o <<<<")">>>>

\* the kind of part i in an invocation with n arguments
InvocationPartKind(n, i) ==
    CASE i = 1 -> "id"
      [] i = 2 -> "lit"
      [] i > 2 /\ i <= 2 + 2 * n ->
            (IF i % 2 = 0 THEN "body" ELSE IF i = 3 THEN "none" ELSE "sep")
      [] i = 3 + 2 * n -> "lit"

InvocationVectors ==
    UNION {OneSiteVectors("invoke", n, InvocationParts(n), InvocationPartKind) :
              n \in 0..MaxArgs}

\* the inputs of the unit tests of implementations.rs that are no vector above
RawVectors ==
    {Vector("raw", 0, 0, <<text>>) :
        text \in {<<"s", "p", "h", "e", "r", "e", "(", "1", ",", " ", "2", ")">>, <<"(", "1",
                " ", "+", " ", "2", ")">>, <<"1", "2", "_", "3">>, <<"1", "2", "3">>, <<"2">>,
                  <<"l", "e", "t", "\n", " ", " ", " ", " ", "x", " ", "=", " ", "1", "\n",
                          " ", " ", " ", " ", "y", " ", "=", " ", "x", "\n", "i", "n", " ",
                          "y">>,
                  <<"l", "e", "t", "\n", " ", " ", " ", " ", " ", " ", " ", " ", " ", " ", " ",
                          " ", " ", " ", " ", " ", "r", "a", "d", "i", "u", "s", " ", "=", " ",
                          "(", "1", "4", " ", "*", " ", "1", "0", "0", ")", "\n", " ", " ",
                          " ", " ", " ", " ", " ", " ", " ", " ", " ", " ", "i", "n", " ", "c",
                          "i", "r", "c", "l", "e", "(", "r", "a", "d", "i", "u", "s", ",", " ",
                          "c", "e", "n", "t", "e", "r", ")">>,
                  <<"b", "i", "g", "C", "i", "r", "c", "l", "e", " ", "=", " ", "(", "c", "e",
                          "n", "t", "e", "r", ":", " ", "P", "o", "i", "n", "t", "2", "D", " ",
                          "-", ">", " ", "S", "o", "l", "i", "d", "2", "D", ")", " ", "=", ">",
                          "\n", " ", " ", " ", " ", " ", " ", " ", " ", " ", " ", " ", " ",
                          " ", " ", " ", " ", "l", "e", "t", "\n", " ", " ", " ", " ", " ",
                          " ", " ", " ", " ", " ", " ", " ", " ", " ", " ", " ", " ", " ", " ",
                          " ", "r", "a", "d", "i", "u", "s", " ", "=", " ", "(", "1", "4", " ",
                          "*", " ", "1", "0", "0", ")", "\n", " ", " ", " ", " ", " ", " ",
                          " ", " ", " ", " ", " ", " ", " ", " ", " ", " ", "i", "n", " ", "c",
                          "i", "r", "c", "l", "e", "(", "r", "a", "d", "i", "u", "s", ",", " ",
                          "c", "e", "n", "t", "e", "r", ")">>}}

TestVectors ==
    FnDefVectors \cup LetInVectors \cup AssignmentVectors \cup NumberVectors
        \cup IdentifierVectors \cup ProgramVectors \cup InvocationVectors
        \cup RawVectors

\* what the file named by --file holds
FileTexts == {ProgramFns[1], <<"f", " ", "=", " ", "(", "x", ":", " ", "T", " ", "-", ">", " ",
        "T", ")", " ", "=", ">", " ", "(", "1", " ", "+", " ", "2">>}

(***************************************************************************)
(* The state machine: the unit-test harness applies one production to a    *)
(* vector's text (T::parse(Input::new(text))); the CLI reads its source    *)
(* and runs main on it.                                                    *)
(***************************************************************************)
NoResult == Error(<<>>)
NoFile == [given |-> FALSE, exists |-> FALSE, text |-> <<>>]
NoReport == [kind |-> "none", rows |-> <<>>]
Running == -1

InitTest ==
    /\ pc = "test"
    /\ tc \in TestVectors
    /\ source_code = TextOf(tc)
    /\ prod = "none"
    /\ result = NoResult
    /\ is_terminal = TRUE
    /\ file = NoFile
    /\ report = NoReport
    /\ exit_code = Running

\* the process starts: stdin is a terminal or holds the vector's text, and
\* --file is absent, names no readable file, or names a file
InitMain ==
    /\ pc = "main"
    /\ tc \in ProgramVectors
    /\ source_code = <<>>
    /\ prod = "none"
    /\ result = NoResult
    /\ is_terminal \in BOOLEAN
    /\ file \in {NoFile, [given |-> TRUE, exists |-> FALSE, text |-> <<>>]}
                  \cup {[given |-> TRUE, exists |-> TRUE, text |-> t] : t \in FileTexts}
    /\ report = NoReport
    /\ exit_code = Running

Init == InitTest \/ InitMain

\* the harness's T::parse(Input::new(text)); "parse" is compiler::parse
Apply(T, src) ==
    CASE T = "Identifier" -> IdentifierParse(src, InputNew)
      [] T = "Parameter" -> ParameterParse(src, InputNew)
      [] T = "Operator" -> OperatorParse(src, InputNew)
      [] T = "Number" -> ParseNum(src, InputNew)
      [] T = "Arithmetic" -> ParseArithmetic(src, InputNew)
      [] T = "LetIn" -> ParseLetIn(src, InputNew)
      [] T = "FnInvocation" -> FnInvocationParse(src, InputNew)
      [] T = "Expression" -> ExpressionParse(src, InputNew)
      [] T = "Assignment" -> AssignmentParse(src, InputNew)
      [] T = "FnDef" -> FnDefParse(src, InputNew)
      [] T = "AbstractSyntaxTree" -> AbstractSyntaxTreeParse(src, InputNew)
      [] T = "parse" -> Parse(src)

Productions ==
    {"Identifier", "Parameter", "Operator", "Number", "Arithmetic", "LetIn",
     "FnInvocation", "Expression", "Assignment", "FnDef", "AbstractSyntaxTree",
     "parse"}

\* a unit test: one production applied to the vector's text
Test ==
    /\ pc = "test"
    /\ \E T \in Productions :
          /\ prod' = T
          /\ result' = Apply(T, source_code)
    /\ pc' = "done"
    /\ UNCHANGED <<tc, source_code, is_terminal, file, report, exit_code>>

\* a source acquisition that looks at --file first and at stdin second
ReadInputPreferringFile ==
    /\ pc = "main"
    /\ IF file.given /\ file.exists
       THEN /\ source_code' = file.text
            /\ pc' = "read"
            /\ UNCHANGED <<report, exit_code>>
       ELSE IF file.given
       THEN /\ report' = [kind |-> "could not read", rows |-> <<>>]
            /\ exit_code' = 1
            /\ pc' = "exited"
            /\ UNCHANGED source_code
       ELSE IF ~is_terminal
       THEN /\ source_code' = TextOf(tc)
            /\ pc' = "read"
            /\ UNCHANGED <<report, exit_code>>
       ELSE /\ report' = [kind |-> "no source", rows |-> <<>>]
            /\ exit_code' = 1
            /\ pc' = "exited"
            /\ UNCHANGED source_code
    /\ UNCHANGED <<tc, prod, result, is_terminal, file>>

\* Args::read_input_source_code, and main's `?` on its result
ReadInputSourceCode ==
    /\ pc = "main"
    /\ IF ~is_terminal
       THEN /\ source_code' = TextOf(tc)
            /\ pc' = "read"
            /\ UNCHANGED <<report, exit_code>>
       ELSE IF file.given /\ file.exists
       THEN /\ source_code' = file.text
            /\ pc' = "read"
            /\ UNCHANGED <<report, exit_code>>
       ELSE /\ report' = [kind |-> IF file.given THEN "could not read"
                                   ELSE "no source", rows |-> <<>>]
            /\ exit_code' = 1
            /\ pc' = "exited"
            /\ UNCHANGED source_code
    /\ UNCHANGED <<tc, prod, result, is_terminal, file>>

\* a main whose Err arm prints the chain and then falls through to Ok(())
MainFallingThrough ==
    /\ pc = "read"
    /\ LET r == Parse(source_code)
       IN  /\ prod' = "parse"
           /\ result' = r
           /\ IF r.ok /\ Fragment(source_code, r.pos) = <<>>
              THEN /\ report' = [kind |-> "analysis",
                                 rows |-> AllFunctions(source_code, r.val)]
                   /\ exit_code' = 0
              ELSE IF r.ok
              THEN /\ report' = [kind |-> "not parsed",
                                 rows |-> <<Fragment(source_code, r.pos)>>]
                   /\ exit_code' = 1
              ELSE /\ report' = [kind |-> "errors", rows |-> r.errors]
                   /\ exit_code' = 0
    /\ pc' = "exited"
    /\ UNCHANGED <<tc, source_code, is_terminal, file>>

\* main, from compiler::parse to the end of the process
Main ==
    /\ pc = "read"
    /\ LET r == Parse(source_code)
       IN  /\ prod' = "parse"
           /\ result' = r
           /\ IF r.ok /\ Fragment(source_code, r.pos) = <<>>
              THEN /\ report' = [kind |-> "analysis",
                                 rows |-> AllFunctions(source_code, r.val)]
                   /\ exit_code' = 0
              ELSE IF r.ok
              THEN /\ report' = [kind |-> "not parsed",
                                 rows |-> <<Fragment(source_code, r.pos)>>]
                   /\ exit_code' = 1
              ELSE /\ report' = [kind |-> "errors", rows |-> r.errors]
                   /\ exit_code' = 1
    /\ pc' = "exited"
    /\ UNCHANGED <<tc, source_code, is_terminal, file>>

Next == Test \/ ReadInputSourceCode \/ Main

Spec == Init /\ [][Next]_vars

(***************************************************************************)
(* Properties.                                                             *)
(***************************************************************************)
\* the state after a production returned / after the process ended
Returned(T) == pc \in {"done", "exited"} /\ prod = T
Exited == pc = "exited"

\* C1: the program production and the entry point parse succeed only when
\* the function definitions consumed the entire text: every success carries
\* an empty remaining input at the end of the text, and main never takes
\* the branch for Ok with a non-empty remaining input.
C1_SuccessConsumesAll ==
    /\ (Returned("AbstractSyntaxTree") \/ Returned("parse")) /\ result.ok
          => /\ Fragment(source_code, result.pos) = <<>>
             /\ result.pos.offset = ByteLen(source_code)
    /\ report.kind # "not parsed"

\* C1 happens: the CLI parsed a text of one or more function definitions to
\* its end and printed the analysis
C1_Witness ==
    /\ Exited
    /\ prod = "parse"
    /\ result.ok
    /\ Len(result.val.functions) >= 1
    /\ Fragment(source_code, result.pos) = <<>>
    /\ report.kind = "analysis"

\* the labels of the context entries of an error list, and whether an entry
\* is a token or character mismatch
Labels(errors) ==
    {errors[k].what : k \in {j \in 1..Len(errors) : errors[j].kind = "Context"}}
IsTokenMismatch(e) ==
    \/ e.kind = "Char"
    \/ e.kind = "Nom" /\ e.what \in {"Tag", "OneOf", "Alpha"}

\* the entry point was applied to a program whose function definition at
\* part tc.site has one of the broken bodies
ParsedBrokenBody ==
    /\ Returned("parse")
    /\ tc.shape = "program"
    /\ source_code = TextOf(tc)
    /\ tc.site > 0
    /\ tc.parts[tc.site] \in BrokenBodies

\* C2: when parse fails on a token mismatch deep inside a nested let-in or
\* arithmetic expression of a function body, the diagnostics hold the full
\* chain: the innermost token mismatch first, then the labels of every
\* enclosing production (expression, function body, function definition),
\* up to "program root".
C2_FullChain ==
    ParsedBrokenBody
        => /\ ~result.ok
           /\ IsTokenMismatch(result.errors[1])
           /\ {"expression", "function body", "function definition"}
                 \subseteq Labels(result.errors)
           /\ result.errors[Len(result.errors)].what = "program root"

\* the label a production wraps itself in
LabelOf(T) ==
    CASE T = "Identifier" -> "identifier"
      [] T = "Parameter" -> "parameter"
      [] T = "Operator" -> "operator"
      [] T = "Number" -> "number"
      [] T = "Arithmetic" -> "arithmetic"
      [] T = "LetIn" -> "let-in"
      [] T = "FnInvocation" -> "function invocation"
      [] T = "Expression" -> "expression"
      [] T = "Assignment" -> "assignment"
      [] T = "FnDef" -> "function definition"
      [] T = "AbstractSyntaxTree" -> "program root"
      [] T = "parse" -> "program root"

\* the parser that context(label, ...) wraps, applied at p
Labelled(label, src, p) ==
    CASE label = "identifier" -> IdentifierParse(src, p)
      [] label = "parameter" -> ParameterParse(src, p)
      [] label = "operator" -> OperatorParse(src, p)
      [] label = "number" -> ParseNum(src, p)
      [] label = "arithmetic" -> ParseArithmetic(src, p)
      [] label = "let-in" -> ParseLetIn(src, p)
      [] label = "function invocation" -> FnInvocationParse(src, p)
      [] label = "expression" -> ExpressionParse(src, p)
      [] label = "assignment" -> AssignmentParse(src, p)
      [] label = "function definition" -> FnDefParse(src, p)
      [] label = "program root" -> AbstractSyntaxTreeParse(src, p)
      [] label = "function name" -> FnName(src, p)
      [] label = "= between function name and definition" -> FnEq(src, p)
      [] label = "parameter list" -> FnParameterList(src, p)
      [] label = "return type arrow ->" -> FnReturnArrow(src, p)
      [] label = "type signature" -> TypeSignature(src, p)
      [] label = "=> between function header and body" -> FnFatArrow(src, p)
      [] label = "function body" -> FnBody(src, p)

\* the position an entry holds (DisplayableError.input for the entry point)
PosOf(e) == IF "input" \in DOMAIN e THEN e.input ELSE e.pos

\* entry k is the label of a production invoked at the entry's position, and
\* the entries before it are the failure of what that production encloses
RecordsInvocation(src, es, k) ==
    es[k].kind = "Context"
        => Labelled(es[k].what, src, es[k].pos).errors = SubSeq(es, 1, k)

\* C3: in every failure of a labelled production and of parse the entries
\* are innermost-first: a context entry holds the position where its
\* production was invoked, an enclosing production's entry comes after the
\* entries of what it encloses, and the last entry is the label of the
\* production applied, at the start of the text ("program root" at offset 0,
\* line 1, column 1 for parse).
C3_InnermostFirst ==
    (pc \in {"done", "exited"} /\ prod # "none" /\ ~result.ok)
        => /\ Len(result.errors) >= 1
           /\ result.errors[Len(result.errors)].kind = "Context"
           /\ result.errors[Len(result.errors)].what = LabelOf(prod)
           /\ PosOf(result.errors[Len(result.errors)]) = InputNew
           /\ \A k \in 1..(Len(result.errors) - 1) :
                 PosOf(result.errors[k + 1]).offset <= PosOf(result.errors[k]).offset
           /\ prod # "parse"
                 => \A k \in 1..Len(result.errors) :
                       RecordsInvocation(source_code, result.errors, k)
           /\ prod = "parse"
                 => /\ result.errors[Len(result.errors)].line = 1
                    /\ result.errors[Len(result.errors)].column = 1

\* C3 happens: a function definition failed on a mismatch past its start, under
\* at least two labels
C3_Witness ==
    /\ Returned("FnDef")
    /\ ~result.ok
    /\ Len(result.errors) >= 3
    /\ result.errors[1].kind # "Context"
    /\ result.errors[1].pos.offset > 0
    /\ Cardinality(Labels(result.errors)) >= 2

\* the entry point was applied to the text 123abc
Parsed123abc ==
    /\ Returned("parse")
    /\ source_code = <<"1", "2", "3", "a", "b", "c">>

\* all_consuming's complaint about input left over, with the text it names
UnparsedInput(e, rest) ==
    /\ e.kind = "Nom"
    /\ e.what = "Eof"
    /\ Fragment(source_code, e.input) = rest

\* C4 as stated: parsing 123abc as a program fails on unparsed trailing
\* input and reports abc as the unparsed remainder.
C4_RemainderAbc ==
    Parsed123abc
        => /\ ~result.ok
           /\ UnparsedInput(result.errors[1], <<"a", "b", "c">>)

\* C4, amended: parsing 123abc as a program fails on unparsed input and
\* reports the whole text 123abc, at line 1 column 1, as the remainder,
\* under "program root"; the CLI prints the errors and exits with 1.
C4_WholeTextReported ==
    Parsed123abc
        => /\ ~result.ok
           /\ Len(result.errors) = 2
           /\ UnparsedInput(result.errors[1], <<"1", "2", "3", "a", "b", "c">>)
           /\ result.errors[1].line = 1
           /\ result.errors[1].column = 1
           /\ result.errors[2].what = "program root"
           /\ Exited => report.kind = "errors" /\ exit_code = 1

\* C4 happens: the CLI parsed the text 123abc and exited
C4_Witness ==
    /\ Parsed123abc
    /\ Exited
    /\ ~result.ok

\* every Identifier of an expression, a function definition, and of the value
\* a production returns
RECURSIVE IdsOfExpr(_)
IdsOfExpr(e) ==
    CASE e.tag = "Number" -> {}
      [] e.tag = "Name" -> {e.id}
      [] e.tag = "FnInvocation" ->
            {e.inv.fn_name}
                \cup UNION {IdsOfExpr(e.inv.args[k]) : k \in 1..Len(e.inv.args)}
      [] e.tag = "LetIn" ->
            UNION {{e.let[k].identifier} \cup IdsOfExpr(e.let[k].value) :
                      k \in 1..Len(e.let)}
                \cup IdsOfExpr(e.in)
      [] e.tag = "Arithmetic" -> IdsOfExpr(e.lhs) \cup IdsOfExpr(e.rhs)

IdsOfFnDef(f) ==
    {f.fn_name, f.return_type}
        \cup UNION {{f.params[k].name, f.params[k].kcl_type} : k \in 1..Len(f.params)}
        \cup IdsOfExpr(f.body)

IdsOf(T, v) ==
    CASE T = "Identifier" -> {v}
      [] T = "Parameter" -> {v.name, v.kcl_type}
      [] T = "Operator" -> {}
      [] T \in {"Number", "Arithmetic", "LetIn", "Expression"} -> IdsOfExpr(v)
      [] T = "FnInvocation" -> IdsOfExpr(FnInvocationExpr(v))
      [] T = "Assignment" -> {v.identifier} \cup IdsOfExpr(v.value)
      [] T = "FnDef" -> IdsOfFnDef(v)
      [] T \in {"AbstractSyntaxTree", "parse"} ->
            UNION {IdsOfFnDef(v.functions[k]) : k \in 1..Len(v.functions)}

\* the text starts with letters and alphanumerics that spell a reserved keyword
MatchesKeyword(r) == r.ok /\ r.val.fragment \in {KwLet, KwIn}

\* C5: the identifier production fails whenever the letters and alphanumerics
\* it matches, taken maximally, spell let or in; and no Identifier in the
\* value of any successful production has the text let or in.
C5_NoReservedIdentifier ==
    /\ (Returned("Identifier")
          /\ MatchesKeyword(IdentifierParseMaybeReserved(source_code, InputNew)))
          => ~result.ok
    /\ (pc \in {"done", "exited"} /\ prod # "none" /\ result.ok)
          => \A id \in IdsOf(prod, result.val) : id.fragment \notin {KwLet, KwIn}

\* C5 happens: the identifier production was applied to a text that starts
\* with the word in and goes on with something else, and refused it
C5_Witness ==
    /\ Returned("Identifier")
    /\ MatchesKeyword(IdentifierParseMaybeReserved(source_code, InputNew))
    /\ SubSeq(source_code, 1, Len(KwIn)) = KwIn
    /\ Len(source_code) > Len(KwIn)
    /\ ~result.ok

\* the error list has a named-context entry that is the closure's message
\* about the identifier matched in r
CarriesKeywordDiagnostic(errors, r) ==
    \E k \in 1..Len(errors) :
        /\ errors[k].kind = "Context"
        /\ errors[k].what = IsReservedKeyword(r.val).err

\* C6: when the identifier production matches a reserved keyword, the
\* failure carries the "reserved keyword" diagnostic naming the word, as a
\* named-context entry and not as a token mismatch or a combinator error.
C6_KeywordDiagnostic ==
    (Returned("Identifier")
        /\ MatchesKeyword(IdentifierParseMaybeReserved(source_code, InputNew)))
        => /\ ~result.ok
           /\ CarriesKeywordDiagnostic(
                  result.errors, IdentifierParseMaybeReserved(source_code, InputNew))
           /\ \A k \in 1..Len(result.errors) : result.errors[k].kind = "Context"

\* the assignment production was applied to the text N = value of a vector
AssignedTo(N) ==
    /\ Returned("Assignment")
    /\ tc.shape = "assign"
    /\ tc.parts[1] = N

\* N is letters followed by letters and digits, and no reserved keyword
IsBindingName(N) ==
    /\ N # <<>>
    /\ IsAlpha(N[1])
    /\ \A k \in 1..Len(N) : IsAlphanumeric(N[k])
    /\ N \notin {KwLet, KwIn}
StartsWithDigit(N) == N # <<>> /\ N[1] \in AsciiDigit
HasSpaceParenOrUnderscore(N) == \E k \in 1..Len(N) : N[k] \in {" ", "(", "_"}

\* the assignment the text N = value stands for
ExpectedAssignment(parts) ==
    Assignment(Identifier(parts[1], 0, 1),
               ExprAst(ExprIndex(parts[3]), ByteLen(parts[1]) + ByteLen(parts[2]), 1))

ConsumedAll == result.ok /\ Fragment(source_code, result.pos) = <<>>

\* C7 as stated: the assignment production applied to N = 100 or
\* N = foo(100) succeeds, consuming all input and yielding N and the value,
\* when N is a binding name; it fails when N starts with a digit, contains
\* a space, ( or _, or is let or in.
C7_InvalidNameFails ==
    \A N \in BindingNames :
        AssignedTo(N)
            => /\ IsBindingName(N)
                    => ConsumedAll /\ result.val = ExpectedAssignment(tc.parts)
               /\ (StartsWithDigit(N) \/ N \in {KwLet, KwIn}) => ~result.ok
               /\ HasSpaceParenOrUnderscore(N) => ~result.ok

\* C7, amended: it succeeds as stated for a binding name and fails when N
\* starts with a digit or is let or in; when N contains a space, ( or _ it
\* never consumes all input and never yields N: it fails, or it stops
\* after a shorter binding that N itself starts with (N = "n = 1").
C7_InvalidNameNotBound ==
    \A N \in BindingNames :
        AssignedTo(N)
            => /\ IsBindingName(N)
                    => ConsumedAll /\ result.val = ExpectedAssignment(tc.parts)
               /\ (StartsWithDigit(N) \/ N \in {KwLet, KwIn}) => ~result.ok
               /\ HasSpaceParenOrUnderscore(N)
                    => \/ ~result.ok
                       \/ /\ ~ConsumedAll
                          /\ result.val.identifier.fragment # N
                          /\ AssignmentParse(N, InputNew).ok

\* C7 happens: a name with a space in it was tried and the production
\* stopped after the binding the name starts with
C7_Witness ==
    /\ AssignedTo(<<"n", " ", "=", " ", "1">>)
    /\ result.ok
    /\ result.val.identifier.fragment = <<"n">>
    /\ Fragment(source_code, result.pos) # <<>>

\* the maximal prefix of the text made of digits and underscores
NumeralPrefix(src) == SubSeq(src, 1, LeadingRun(src, InputNew, IsNumChar))
HasDigit(numeral) == \E k \in 1..Len(numeral) : numeral[k] \in AsciiDigit

\* a <= b for decimal numerals without leading zeros
DecimalLeq(a, b) ==
    \/ Len(a) < Len(b)
    \/ /\ Len(a) = Len(b)
       /\ \/ a = b
          \/ \E k \in 1..Len(a) :
                /\ DigitValue(a[k]) < DigitValue(b[k])
                /\ \A j \in 1..(k - 1) : a[j] = b[j]
U64MaxDecimal ==
    Numeral(<<1, 8, 4, 4, 6, 7, 4, 4, 0, 7, 3, 7, 0, 9, 5, 5, 1, 6, 1, 5>>)
FitsU64(numeral) == DecimalLeq(Significant(DigitsOnly(numeral)), U64MaxDecimal)

\* a u64 written in decimal, without leading zeros (nothing for zero)
FiveDigits(n) ==
    <<DigitChars[((n \div 10000) % 10) + 1], DigitChars[((n \div 1000) % 10) + 1],
      DigitChars[((n \div 100) % 10) + 1], DigitChars[((n \div 10) % 10) + 1],
      DigitChars[(n % 10) + 1]>>
Decimal(v) ==
    Significant(FiveDigits(v[1]) \o FiveDigits(v[2]) \o FiveDigits(v[3])
                    \o FiveDigits(v[4]))

\* the number production succeeds with Number(v) exactly on a prefix with a
\* digit whose value v is at most 2^64 - 1, and consumes the prefix
NumberRule(numeral) ==
    /\ result.ok <=> (HasDigit(numeral) /\ FitsU64(numeral))
    /\ result.ok
          => /\ result.val.tag = "Number"
             /\ Decimal(result.val.n) = Significant(DigitsOnly(numeral))
             /\ Fragment(source_code, result.pos)
                   = SubSeq(source_code, Len(numeral) + 1, Len(source_code))

\* a failure on a value above 2^64 - 1 says so
OverflowDiagnosed(numeral) ==
    (HasDigit(numeral) /\ ~FitsU64(numeral))
        => \E k \in 1..Len(result.errors) : result.errors[k].what = "PosOverflow"

\* C8: the number production takes the maximal prefix of digits and
\* underscores; it succeeds with Number(v) exactly when the prefix has a
\* digit and the decimal value v of its digits is at most 2^64 - 1; it
\* fails on a prefix of underscores only and on a value above 2^64 - 1,
\* the latter with an overflow diagnostic.
C8_NumberWithOverflowDiagnostic ==
    Returned("Number")
        => /\ NumberRule(NumeralPrefix(source_code))
           /\ OverflowDiagnosed(NumeralPrefix(source_code))

\* the function-definition production was applied to a function-definition
\* vector; the kind of the part that was replaced in it
AppliedToFnDefVector == Returned("FnDef") /\ tc.shape = "fndef"
ReplacedKind(Kind(_, _)) == IF tc.site = 0 THEN "none" ELSE Kind(tc.n, tc.site)

\* the vector's text has the shape of the production: nothing was replaced,
\* or a name by a name, the body by an expression, whitespace by whitespace
KeepsShape(Kind(_, _)) ==
    \/ tc.site = 0
    \/ Kind(tc.n, tc.site) = "ws"
    \/ Kind(tc.n, tc.site) = "id" /\ tc.parts[tc.site] \in GoodIdentifiers
    \/ Kind(tc.n, tc.site) = "body" /\ IsExprText(tc.parts[tc.site])

\* the expression that part i of a vector stands for
ExprAtPart(parts, i) ==
    ExprAst(ExprIndex(parts[i]), OffsetOfPart(parts, i), LineOfPart(parts, i))

\* the function definition a well-formed vector with n parameters stands for
ExpectedFnDef(n, parts) ==
    FnDef(IdAtPart(parts, 1),
          [k \in 1..n |-> Parameter(IdAtPart(parts, 4 * k + 1),
                                    IdAtPart(parts, 4 * k + 3))],
          IdAtPart(parts, 4 * n + 5),
          ExprAtPart(parts, 4 * n + 9))

\* C9: the function-definition production accepts
\* name = (p1: T1, p2: T2 -> Ret) => body and yields the name, the
\* parameters in source order, the return type and the body; with a space
\* missing or doubled in one of the separators " = ", ", ", ": ", " -> ",
\* " =>" it fails; any whitespace, newlines included, may follow " =>".
C9_FnDefSeparators ==
    AppliedToFnDefVector
        => /\ KeepsShape(FnDefPartKind)
                => ConsumedAll /\ result.val = ExpectedFnDef(tc.n, tc.parts)
           /\ ReplacedKind(FnDefPartKind) = "sep" => ~result.ok

\* C9 happens: a definition with two parameters and with spaces, a tab and
\* newlines after " =>" was accepted
C9_Witness ==
    /\ AppliedToFnDefVector
    /\ tc.n = 2
    /\ ReplacedKind(FnDefPartKind) = "ws"
    /\ Len(tc.parts[tc.site]) > 2
    /\ result.ok
    /\ Len(result.val.params) = 2
    /\ result.val.body.tag = "FnInvocation"

\* the let-in production was applied to a let-in vector
AppliedToLetInVector == Returned("LetIn") /\ tc.shape = "letin"

\* the let-in expression a well-formed vector with n groups stands for
ExpectedLetIn(n, parts) ==
    LetIn([k \in 1..n |-> Assignment(IdAtPart(parts, 5 * k - 1),
                                     ExprAtPart(parts, 5 * k + 1))],
          ExprAtPart(parts, 5 * n + 6))

\* what the vector's text has between the literal in and the body
AfterIn == tc.parts[5 * tc.n + 5]

\* a well-formed let-in with one or more groups yields its bindings in
\* order and its body; one with no group, or with a keyword, a newline, a
\* separator, a name or an expression mistyped, fails
LetInRule ==
    /\ (tc.n >= 1 /\ KeepsShape(LetInPartKind))
          => ConsumedAll /\ result.val = ExpectedLetIn(tc.n, tc.parts)
    /\ tc.n = 0 => ~result.ok
    /\ ReplacedKind(LetInPartKind) \in {"kw", "nl", "sep"} => ~result.ok
    /\ (ReplacedKind(LetInPartKind) = "id" /\ tc.parts[tc.site] \in BadIdentifiers)
          => ~result.ok
    /\ (ReplacedKind(LetInPartKind) = "body" /\ tc.parts[tc.site] \in BadExprTexts)
          => ~result.ok

\* C10 as stated: the let-in production succeeds exactly on let, a newline,
\* one or more groups of (optional whitespace, assignment, newline),
\* optional whitespace, in, then an expression, and yields the bindings in
\* order and the body; it fails with zero assignments and with a binding
\* not ended by a newline.
C10_InThenExpression ==
    AppliedToLetInVector
        => /\ LetInRule
           /\ result.ok => AfterIn = <<>>

\* C10, amended: as stated, with optional whitespace also between the
\* literal in and the expression: a space, a newline or a longer run of
\* whitespace there is accepted, and so is none.
C10_InThenOptionalWhitespace ==
    AppliedToLetInVector
        => /\ LetInRule
           /\ (tc.n >= 1 /\ tc.site \in {0, 5 * tc.n + 5})
                 => /\ AfterIn \in Whitespaces
                    /\ result.ok
                    /\ result.val.in = ExprAtPart(tc.parts, 5 * tc.n + 6)

\* C10 happens: a let-in with two bindings and newlines between in and the
\* body was accepted
C10_Witness ==
    /\ AppliedToLetInVector
    /\ tc.n = 2
    /\ tc.site = 5 * tc.n + 5
    /\ \E k \in 1..Len(AfterIn) : AfterIn[k] = "\n"
    /\ result.ok
    /\ Len(result.val.let) = 2

\* the function-invocation production was applied to an invocation vector
AppliedToInvocationVector == Returned("FnInvocation") /\ tc.shape = "invoke"

\* the invocation a well-formed vector with n arguments stands for
ExpectedInvocation(n, parts) ==
    FnInvocation(IdAtPart(parts, 1), [k \in 1..n |-> ExprAtPart(parts, 2 * k + 2)])

\* what the vector has in place of the part that was replaced
Replacement == tc.parts[tc.site]

\* C11: the function-invocation production accepts an identifier, "(",
\* zero or more expressions separated by exactly ", ", and ")", and yields
\* the name and the arguments in source order; f() is accepted; a
\* separator that no expression follows, a comma without the space (or any
\* other mistyping of the separator), and a missing parenthesis make it fail.
C11_InvocationArguments ==
    AppliedToInvocationVector
        => /\ KeepsShape(InvocationPartKind)
                => ConsumedAll /\ result.val = ExpectedInvocation(tc.n, tc.parts)
           /\ (ReplacedKind(InvocationPartKind) = "sep" /\ Replacement # <<>>)
                => ~result.ok
           /\ (ReplacedKind(InvocationPartKind) = "body"
                 /\ Replacement \in BadExprTexts
                 /\ tc.site > 4)
                => ~result.ok
           /\ (ReplacedKind(InvocationPartKind) = "lit" /\ Replacement = <<>>)
                => ~result.ok

\* C11 happens: an invocation without arguments was accepted
C11_Witness ==
    /\ AppliedToInvocationVector
    /\ tc.n = 0
    /\ tc.site = 0
    /\ result.ok
    /\ result.val.args = <<>>
    /\ Fragment(source_code, result.pos) = <<>>

\* the identifiers of the value a production returned
ReturnedIds == IF result.ok THEN IdsOf(prod, result.val) ELSE {}

\* the number of characters of src before character index k that follow
\* the last newline before k
CharsSinceNewline(src, k) ==
    Cardinality({j \in 1..k : \A i \in j..k : src[i] # "\n"})

\* identifier id lies at character index k of src with the position it records
RecordedAt(src, id, k) ==
    /\ ByteLen(SubSeq(src, 1, k)) = id.offset
    /\ SubSeq(src, k + 1, k + Len(id.fragment)) = id.fragment
    /\ id.line = 1 + CountNewlines(SubSeq(src, 1, k))
    /\ GetUtf8Column(src, id.offset) = 1 + CharsSinceNewline(src, k)

\* C12: for every identifier of a value a production returned, the text
\* equals the source substring at the recorded byte offset, the line is 1
\* plus the newlines before that offset, and the column is 1 plus the
\* characters between the preceding newline (or the start) and the offset.
C12_PositionsConsistent ==
    (pc \in {"done", "exited"} /\ result # NoResult)
        => \A id \in ReturnedIds :
              \E k \in 0..Len(source_code) : RecordedAt(source_code, id, k)

\* C12 happens: an identifier on a later line, behind a character of
\* several bytes, was returned
C12_Witness ==
    /\ pc \in {"done", "exited"}
    /\ result # NoResult
    /\ \E id \in ReturnedIds :
          /\ id.line > 1
          /\ GetUtf8Column(source_code, id.offset) > 1
          /\ id.offset > CharIndex(source_code, id.offset)

ParsedAndExited == Exited /\ prod = "parse" /\ result # NoResult

\* the parse of the CLI is clean: it succeeded and left no input
CleanParse == result.ok /\ Fragment(source_code, result.pos) = <<>>

\* C14: once the CLI has the source text, it ends with status 0, after
\* printing the function listing, exactly when the parse is clean, and with
\* a non-zero status, after printing diagnostics, whenever the parse fails
\* or leaves input.
C14_ExitStatus ==
    ParsedAndExited
        => /\ exit_code = 0 <=> CleanParse
           /\ exit_code # Running
           /\ CleanParse
                => /\ report.kind = "analysis"
                   /\ Len(report.rows) = Len(result.val.functions)
           /\ ~CleanParse
                => /\ exit_code # 0
                   /\ report.kind \in {"errors", "not parsed"}
                   /\ report.rows # <<>>

\* C14 happens: the CLI ended with a failing status after a failed parse
C14_Witness ==
    /\ ParsedAndExited
    /\ ~result.ok
    /\ exit_code = 1
    /\ report.kind = "errors"
    /\ Len(report.rows) >= 2

\* the input that begins at character index k of the source
InputAt(src, k) == Slice(src, InputNew, k)

\* multi::many0 of the function definitions, as AbstractSyntaxTree::parse
\* runs it on the whole source
ProgramRepetition(src) == Many0(FnDefParse, src, InputNew)

\* C15: every call of the expression production made inside a call of it,
\* on whatever input of the source, is made on a strictly shorter input;
\* and the repetitions of function definitions and of list elements end:
\* with a value, at an input where the element fails, after at most one
\* element for each character consumed.
C15_RecursionOnShorterInput ==
    /\ Returned("Expression")
          => \A k \in 0..Len(source_code) :
                \A q \in ExpressionCallSites(source_code, InputAt(source_code, k)) :
                    InputLen(source_code, q) < Len(source_code) - k
    /\ Returned("AbstractSyntaxTree")
          => /\ ProgramRepetition(source_code).ok
             /\ ~FnDefParse(source_code, ProgramRepetition(source_code).pos).ok
             /\ Len(ProgramRepetition(source_code).val)
                    <= ProgramRepetition(source_code).pos.idx
    /\ (Returned("FnInvocation") /\ result.ok)
          => Len(result.val.args) <= result.pos.idx

\* C15 happens: an expression was parsed whose parse called the expression
\* production on three or more inputs, one of which called it again
C15_Witness ==
    /\ Returned("Expression")
    /\ result.ok
    /\ Cardinality(ExpressionCallSites(source_code, InputNew)) >= 3
    /\ \E q \in ExpressionCallSites(source_code, InputNew) :
          ExpressionCallSites(source_code, q) # {}

\* the five alternatives of the expression production, each applied to the
\* input p, in the order of the alt
ExpressionAlternatives(src, p) ==
    <<ParseArithmetic(src, p),
      ParseNum(src, p),
      ParseLetIn(src, p),
      Map(FnInvocationParse(src, p), FnInvocationExpr),
      Map(IdentifierParse(src, p), Name)>>

\* the alternatives, of five results, that succeed
WinnersOf(alts) == {k \in 1..5 : alts[k].ok}

\* the alternatives that succeed on the whole text
Winners == WinnersOf(ExpressionAlternatives(source_code, InputNew))

\* r is the result of the first of the alternatives that succeeds, and a
\* failure if none does
IsFirstSuccess(r, alts, winners) ==
    /\ winners = {} => ~r.ok
    /\ \A k \in winners : (\A j \in winners : k <= j) => r = alts[k]

\* a name with a broken argument list behind its "(" is a bare identifier
NameOfBrokenInvocation(winners) ==
    (tc.shape = "invoke" /\ tc.site # 1 /\ tc.parts[2] # <<>> /\ 4 \notin winners)
        => /\ result.ok
           /\ result.val = Name(IdAtPart(tc.parts, 1))
           /\ result.pos.idx = Len(tc.parts[1])

\* C16: the expression production returns exactly the result of the first
\* alternative that succeeds on the original input, in the order arithmetic,
\* number, let-in, invocation, identifier, and fails when none does; a name
\* followed by a broken argument list yields Name(name) and leaves the rest.
C16_FirstSuccessfulAlternative ==
    Returned("Expression")
        => /\ IsFirstSuccess(result, ExpressionAlternatives(source_code, InputNew),
                             Winners)
           /\ NameOfBrokenInvocation(Winners)

\* C16 happens: invocation and identifier both succeed on the whole text,
\* and the expression is the invocation
C16_Witness ==
    /\ Returned("Expression")
    /\ tc.shape = "invoke"
    /\ Winners = {4, 5}
    /\ result.val.tag = "FnInvocation"
    /\ Len(result.val.inv.args) = 2

\* the expression production was applied to a text on which the let-in
\* alternative matches let and the newline, and then fails
LetInFailedBehindNewline ==
    /\ Returned("Expression")
    /\ Tuple2(KwLetTag, Newline, All, source_code, InputNew).ok
    /\ ~ParseLetIn(source_code, InputNew).ok

\* C17: once the let-in alternative has matched let and the newline, a
\* later mismatch in it is a fatal failure of the expression: the invocation
\* and identifier alternatives are not tried, so the failure returned is the
\* let-in alternative's, in the context of the expression.
C17_LetInFailureIsFatal ==
    LetInFailedBehindNewline
        => /\ ~result.ok
           /\ result.fatal
           /\ result.errors
                = Context(InputNew, "expression",
                          ParseLetIn(source_code, InputNew)).errors

\* how far into the input the failing match of a failed result lies: the
\* position of its first, innermost entry
FailureDepth(r) == r.errors[1].pos.idx

\* the entries of a failure, as a set
Entries(r) == {r.errors[i] : i \in 1..Len(r.errors)}

\* the alternatives whose failing match lies farthest into the input
Deepest(alts) ==
    {k \in 1..5 : \A j \in 1..5 : FailureDepth(alts[j]) <= FailureDepth(alts[k])}

\* C18: when all five alternatives of the expression production fail, the
\* failure returned carries the entries of all of them or, at minimum, of a
\* deepest one, whose failing match lies farthest into the input.
C18_DeepestAlternativeReported ==
    (Returned("Expression") /\ Winners = {})
        => /\ ~result.ok
           /\ \E k \in Deepest(ExpressionAlternatives(source_code, InputNew)) :
                 Entries(ExpressionAlternatives(source_code, InputNew)[k])
                     \subseteq Entries(result)

\* the text starts with a letter that an underscore follows immediately
LetterThenUnderscore(src) == Len(src) >= 2 /\ IsAlpha(src[1]) /\ src[2] = "_"

\* the text starts with k letters and digits, the first a letter, that an
\* underscore follows
NameThenUnderscore(src, k) ==
    /\ k >= 1
    /\ Len(src) > k
    /\ IsAlpha(src[1])
    /\ \A j \in 1..k : IsAlphanumeric(src[j])
    /\ src[k + 1] = "_"

\* C19 as stated: on an input that starts with a letter immediately followed
\* by an underscore, the identifier production fails.
C19_UnderscoreIdentifierFails ==
    (Returned("Identifier") /\ LetterThenUnderscore(source_code)) => ~result.ok

\* C19: on an input that starts with a name and an underscore, the
\* identifier production succeeds with the name before the underscore (if
\* that is no reserved keyword) and leaves the underscore and the rest; the
\* assignment production is what fails on such an input.
C19_UnderscoreEndsIdentifier ==
    \A k \in 1..Len(source_code) :
        NameThenUnderscore(source_code, k)
            => /\ Returned("Identifier")
                    => IF SubSeq(source_code, 1, k) \in {KwLet, KwIn}
                       THEN ~result.ok
                       ELSE /\ result.ok
                            /\ result.val = Identifier(SubSeq(source_code, 1, k), 0, 1)
                            /\ result.pos.idx = k
                            /\ Fragment(source_code, result.pos)[1] = "_"
               /\ Returned("Assignment") => ~result.ok

\* C19 happens: the identifier production was applied to n_h and returned n
C19_Witness ==
    /\ Returned("Identifier")
    /\ source_code = <<"n", "_", "h">>
    /\ LetterThenUnderscore(source_code)
    /\ result.ok
    /\ result.val.fragment = <<"n">>
    /\ Fragment(source_code, result.pos) = <<"_", "h">>

\* the alternatives that succeed on the input at character index k
WinnersAt(k) ==
    WinnersOf(ExpressionAlternatives(source_code, InputAt(source_code, k)))

\* no success of arithmetic, number or let-in beside one of invocation or
\* identifier
Disjoint(winners) == winners \cap {1, 2, 3} # {} => winners \cap {4, 5} = {}

\* the alt of Expression::parse with invocation and identifier tried first
Reordered(p, alts) == Alt5(p, alts[4], alts[5], alts[1], alts[2], alts[3])

\* what a result says of the text: success, value, remaining input
Outcome(r) == <<r.ok, r.val, r.pos>>

\* C20: on every input (every suffix of every text), if the arithmetic, the
\* number or the let-in alternative succeeds then neither the invocation nor
\* the identifier production does; and the expression production returns
\* what it would return with invocation and identifier tried first.
C20_DisjointAlternatives ==
    Returned("Expression")
        => /\ \A k \in 0..Len(source_code) : Disjoint(WinnersAt(k))
           /\ Outcome(result)
                = Outcome(Reordered(InputNew,
                                    ExpressionAlternatives(source_code, InputNew)))

\* C20 happens: a let-in was parsed on whose text the identifier and the
\* invocation production fail
C20_Witness ==
    /\ Returned("Expression")
    /\ result.ok
    /\ result.val.tag = "LetIn"
    /\ WinnersAt(0) = {3}
    /\ \E k \in 1..Len(source_code) : WinnersAt(k) = {1}
    /\ \E k \in 1..Len(source_code) : WinnersAt(k) = {2}

\* the program production or the entry point was applied to the text
ParsedAsProgram == Returned("AbstractSyntaxTree") \/ Returned("parse")

\* the characters an expression, and so a function definition, can end with
ExpressionEnds(c) == c \in {")", "_"} \/ IsAlphanumeric(c)

\* the text is that of two or more function definitions of a program vector
\* with a space or a newline between two of them
GapBetweenDefinitions ==
    /\ tc.shape = "program"
    /\ source_code = TextOf(tc)
    /\ tc.site > 0
    /\ tc.site < 2 * tc.n
    /\ ProgramPartKind(tc.n, tc.site) = "gap"
    /\ tc.parts[tc.site] \in {<<" ">>, <<"\n">>}

\* C21: no production takes whitespace behind an expression: every text
\* that is not empty and parses as a program ends with ")", a digit, "_" or
\* an alphanumeric character; a text that ends in a newline fails, and so
\* does one with a space or a newline between two function definitions.
C21_NoWhitespaceBetweenDefinitions ==
    ParsedAsProgram
        => /\ (result.ok /\ source_code # <<>>)
                => ExpressionEnds(source_code[Len(source_code)])
           /\ (source_code # <<>> /\ source_code[Len(source_code)] = "\n")
                => ~result.ok
           /\ GapBetweenDefinitions => ~result.ok

\* C21 happens: two function definitions with a newline between them were
\* given to the entry point, which failed
C21_Witness ==
    /\ Returned("parse")
    /\ GapBetweenDefinitions
    /\ tc.n = 2
    /\ tc.parts[tc.site] = <<"\n">>
    /\ ~result.ok

\* what a step of the CLI that starts with the source acquisition does
AcquiresAsStated ==
    pc = "main"
        => /\ ~is_terminal
                => /\ pc' = "read"
                   /\ source_code' = TextOf(tc)
                   /\ exit_code' = Running
           /\ (is_terminal /\ file.given /\ file.exists)
                => /\ pc' = "read"
                   /\ source_code' = file.text
           /\ (is_terminal /\ ~file.given)
                => /\ pc' = "exited"
                   /\ exit_code' = 1
                   /\ report'.kind = "no source"
                   /\ prod' = "none"
                   /\ result' = NoResult
                   /\ source_code' = <<>>

\* C22: the CLI takes its source from stdin whenever stdin is no terminal,
\* --file given or not; it takes it from the file only when stdin is a
\* terminal and --file is given; with a terminal and no --file it ends with
\* a failure and parses nothing.
C22_StdinBeforeFile == [][AcquiresAsStated]_vars

\* C22 happens: stdin held one text, --file named a file with another, and
\* the CLI parsed the text of stdin
C22_Witness ==
    /\ Exited
    /\ prod = "parse"
    /\ ~is_terminal
    /\ file.given
    /\ file.exists
    /\ file.text # TextOf(tc)
    /\ source_code = TextOf(tc)
    /\ result.ok
    /\ ~Parse(file.text).ok

====
